---- MODULE Spec2Model ----
(***************************************************************************)
(* Verification model of ecc-secp256k1-rs: the fixed-width modular integer *)
(* (src/src/u256.rs) and the curve engine built on it                      *)
(* (src/src/secp256k1.rs).                                                 *)
(*                                                                         *)
(* TLC's integers are 32-bit, so the 256-bit word is scaled down to Width  *)
(* bits and the curve y^2 = x^3 + 7 is taken over a prime field that fits  *)
(* in that word.  The scaled curve keeps the properties of secp256k1 the   *)
(* code relies on: the same equation, a field prime in the upper half of   *)
(* the word (so that add_mod's overflow branch is taken), a group of prime *)
(* order n < p with cofactor 1, no point with y = 0, and (0,0) off the     *)
(* curve.  Every operation is translated statement by statement; a Rust    *)
(* panic (assert!, expect, checked arithmetic) is the value Panic.         *)
(***************************************************************************)
EXTENDS Integers, Sequences, FiniteSets, TLC

\* Bits of the machine word (256 in the source).
Width == 4

\* Bits of one byte of the big-endian buffer (8 in the source).
ByteBits == 2

Modulus == 2 ^ Width

\* PU256::MAX
MAX == Modulus - 1

\* Length of the big-endian buffer ([0; 32] in the source).
NumBytes == (Width + ByteBits - 1) \div ByteBits

Values == 0 .. MAX

\* The outcome of a call that panicked.
Panic == 0 - 1

IsPanic(v) == v = Panic

(***************************************************************************)
(* U256 utilities                                                          *)
(***************************************************************************)

zero == 0

one == 1

\* U256::to_bytes: the value as NumBytes big-endian bytes.
to_bytes(v) ==
    [i \in 1 .. NumBytes |-> (v \div (2 ^ (ByteBits * (NumBytes - i)))) % (2 ^ ByteBits)]

\* bytes::bytes_to_binary: every byte expanded to its bits, most significant
\* bit first, in buffer order.
bytes_to_binary(bs) ==
    [j \in 1 .. (Len(bs) * ByteBits) |->
        (bs[((j - 1) \div ByteBits) + 1] \div (2 ^ (ByteBits - 1 - ((j - 1) % ByteBits)))) % 2]

\* PU256::checked_rem(..).expect("modulo")
checked_rem(a, m) == IF m = 0 THEN Panic ELSE a % m

(***************************************************************************)
(* U256 arithmetic                                                         *)
(***************************************************************************)

\* add_mod without the overflow branch: the truncated sum is reduced as is.
add_mod_nocorrection(a, b, m) ==
    IF IsPanic(a) \/ IsPanic(b) \/ IsPanic(m) THEN Panic
    ELSE IF m = 0 THEN Panic
    ELSE (((a % m) + (b % m)) % Modulus) % m

\* add_mod whose overflow branch returns without the final reduction.
add_mod_nofinalrem(a, b, m) ==
    IF IsPanic(a) \/ IsPanic(b) \/ IsPanic(m) THEN Panic
    ELSE IF m = 0 THEN Panic
    ELSE IF (a % m) + (b % m) > MAX
         THEN ((a % m) + (b % m)) - m
         ELSE (a % m) + (b % m)

add_mod(a, b, m) ==
    IF IsPanic(a) \/ IsPanic(b) \/ IsPanic(m) THEN Panic
    ELSE IF m = 0 THEN Panic
    ELSE LET x1 == checked_rem(a, m)
             x2 == checked_rem(b, m)
             over == x1 + x2 > MAX
             x3 == (x1 + x2) % Modulus
             seg == MAX - m + 1
         IN  IF over
             THEN IF seg > MAX \/ x3 + seg > MAX
                  THEN Panic
                  ELSE checked_rem(x3 + seg, m)
             ELSE checked_rem(x3, m)

\* sub_mod as the plain difference of the residues, which underflows.
sub_mod_nocomplement(a, b, m) ==
    IF IsPanic(a) \/ IsPanic(b) \/ IsPanic(m) THEN Panic
    ELSE IF m = 0 THEN Panic
    ELSE IF (b % m) > (a % m) THEN Panic ELSE (a % m) - (b % m)

sub_mod(a, b, m) ==
    IF IsPanic(a) \/ IsPanic(b) \/ IsPanic(m) THEN Panic
    ELSE IF m = 0 THEN Panic
    ELSE LET x1 == checked_rem(a, m)
             x2 == checked_rem(b, m)
         IN  IF x2 > m THEN Panic ELSE add_mod(x1, m - x2, m)

\* The loop of mul_mod with the two statements of its body swapped.
RECURSIVE mul_loop_addfirst(_, _, _, _, _, _)
mul_loop_addfirst(bits, i, acc, started, adder, m) ==
    IF i > Len(bits) THEN acc
    ELSE LET d == bits[i]
             added == IF d > 0 THEN add_mod(acc, adder, m) ELSE acc
             doubled == IF started \/ d > 0 THEN add_mod(added, added, m) ELSE added
         IN  mul_loop_addfirst(bits, i + 1, doubled, started \/ d > 0, adder, m)

\* The loop of mul_mod (for d in seq_binaries) from bit i on.
RECURSIVE mul_loop(_, _, _, _, _, _)
mul_loop(bits, i, acc, started, adder, m) ==
    IF i > Len(bits) THEN acc
    ELSE LET doubled == IF started THEN add_mod(acc, acc, m) ELSE acc
             d == bits[i]
             added == IF d > 0 THEN add_mod(doubled, adder, m) ELSE doubled
         IN  mul_loop(bits, i + 1, added, started \/ d > 0, adder, m)

mul_mod(a, b, m) ==
    IF IsPanic(a) \/ IsPanic(b) \/ IsPanic(m) THEN Panic
    ELSE IF m = 0 THEN Panic
    ELSE LET x1 == checked_rem(a, m)
             x2 == checked_rem(b, m)
             seq == IF x1 < x2 THEN x1 ELSE x2
             adder == IF x1 < x2 THEN x2 ELSE x1
         IN  mul_loop(bytes_to_binary(to_bytes(seq)), 1, zero, FALSE, adder, m)

\* The loop of exp_mod with the two statements of its body swapped.
RECURSIVE exp_loop_mulfirst(_, _, _, _, _, _)
exp_loop_mulfirst(bits, i, acc, started, multiplier, m) ==
    IF i > Len(bits) THEN acc
    ELSE LET d == bits[i]
             multiplied == IF d > 0 THEN mul_mod(acc, multiplier, m) ELSE acc
             squared == IF started \/ d > 0 THEN mul_mod(multiplied, multiplied, m) ELSE multiplied
         IN  exp_loop_mulfirst(bits, i + 1, squared, started \/ d > 0, multiplier, m)

\* The loop of exp_mod (for d in seq_binaries) from bit i on.
RECURSIVE exp_loop(_, _, _, _, _, _)
exp_loop(bits, i, acc, started, multiplier, m) ==
    IF i > Len(bits) THEN acc
    ELSE LET squared == IF started THEN mul_mod(acc, acc, m) ELSE acc
             d == bits[i]
             multiplied == IF d > 0 THEN mul_mod(squared, multiplier, m) ELSE squared
         IN  exp_loop(bits, i + 1, multiplied, started \/ d > 0, multiplier, m)

exp_mod(a, e, m) ==
    IF IsPanic(a) \/ IsPanic(e) \/ IsPanic(m) THEN Panic
    ELSE IF m = 0 THEN Panic
    ELSE LET multiplier == checked_rem(a, m)
         IN  exp_loop(bytes_to_binary(to_bytes(e)), 1, one, FALSE, multiplier, m)

\* div_mod raising the divisor to m - 1 instead of m - 2.
div_mod_wrongexp(a, b, m) ==
    IF IsPanic(a) \/ IsPanic(b) \/ IsPanic(m) THEN Panic
    ELSE IF m < 2 THEN Panic
    ELSE mul_mod(a, exp_mod(b, m - 1, m), m)

div_mod(a, b, m) ==
    IF IsPanic(a) \/ IsPanic(b) \/ IsPanic(m) THEN Panic
    ELSE IF m < 2 THEN Panic
    ELSE mul_mod(a, exp_mod(b, m - 2, m), m)

(***************************************************************************)
(* Curve parameters (scaled: y^2 = x^3 + 7 over the field of 13 elements,  *)
(* a group of prime order 7 generated by (7, 5))                           *)
(***************************************************************************)

\* SECP256K1::p, the field prime.
p == 13

\* SECP256K1::n, the order of the generator.
n == 7

\* SECP256K1::g, the generator point.
g == [x |-> 7, y |-> 5]

\* SECP256K1::zero_point, the identity sentinel.
zero_point == [x |-> 0, y |-> 0]

\* The outcome of a point operation that panicked.
PanicPt == [x |-> Panic, y |-> Panic]

\* EccPoint::is_zero_point
is_zero_point(pt) == pt.x = 0 /\ pt.y = 0

\* The point (x3, y3), or the panic that one of the coordinates ran into.
MkPoint(x3, y3) ==
    IF IsPanic(x3) \/ IsPanic(y3) THEN PanicPt ELSE [x |-> x3, y |-> y3]

\* add_points gets past its guards (lines 60-67) to the slope computation.
add_points_slope_reached(pt1, pt2) ==
    /\ pt1.x # pt2.x
    /\ ~is_zero_point(pt1)
    /\ ~is_zero_point(pt2)

\* The divisor add_points hands to div_mod: x_diff (line 73).
add_points_x_diff(pt1, pt2) == sub_mod(pt1.x, pt2.x, p)

\* double_point gets past its guards (lines 93-98) to the slope computation.
double_point_slope_reached(pt) ==
    /\ ~is_zero_point(pt)
    /\ pt.y # 0

\* The divisor double_point hands to div_mod: two_y (line 105).
double_point_two_y(pt) == mul_mod(pt.y, 2, p)

\* add_points with the identity shortcuts taken before the assertion.
add_points_shortcutfirst(pt1, pt2) ==
    IF pt1 = PanicPt \/ pt2 = PanicPt THEN PanicPt
    ELSE IF is_zero_point(pt1) THEN pt2
    ELSE IF is_zero_point(pt2) THEN pt1
    ELSE IF pt1.x = pt2.x THEN PanicPt
    ELSE LET y_diff == sub_mod(pt1.y, pt2.y, p)
             x_diff == sub_mod(pt1.x, pt2.x, p)
             lambda == div_mod(y_diff, x_diff, p)
             x3 == sub_mod(sub_mod(mul_mod(lambda, lambda, p), pt1.x, p), pt2.x, p)
             y3 == sub_mod(mul_mod(sub_mod(pt1.x, x3, p), lambda, p), pt1.y, p)
         IN  MkPoint(x3, y3)

add_points(pt1, pt2) ==
    IF pt1 = PanicPt \/ pt2 = PanicPt THEN PanicPt
    ELSE IF pt1.x = pt2.x THEN PanicPt
    ELSE IF is_zero_point(pt1) THEN pt2
    ELSE IF is_zero_point(pt2) THEN pt1
    ELSE LET y_diff == sub_mod(pt1.y, pt2.y, p)
             x_diff == add_points_x_diff(pt1, pt2)
             lambda == div_mod(y_diff, x_diff, p)
             x3 == sub_mod(sub_mod(mul_mod(lambda, lambda, p), pt1.x, p), pt2.x, p)
             y3 == sub_mod(mul_mod(sub_mod(pt1.x, x3, p), lambda, p), pt1.y, p)
         IN  MkPoint(x3, y3)

\* double_point with the slope of the chord formula's shape: x^2 instead of
\* 3 x^2 in the numerator.
double_point_noconst3(pt) ==
    IF pt = PanicPt THEN PanicPt
    ELSE IF is_zero_point(pt) THEN zero_point
    ELSE IF pt.y = 0 THEN zero_point
    ELSE LET two_y == mul_mod(pt.y, 2, p)
             x1_2 == mul_mod(pt.x, pt.x, p)
             lambda == div_mod(x1_2, two_y, p)
             x3 == sub_mod(sub_mod(mul_mod(lambda, lambda, p), pt.x, p), pt.x, p)
             y3 == sub_mod(mul_mod(sub_mod(pt.x, x3, p), lambda, p), pt.y, p)
         IN  MkPoint(x3, y3)

double_point(pt) ==
    IF pt = PanicPt THEN PanicPt
    ELSE IF is_zero_point(pt) THEN zero_point
    ELSE IF pt.y = 0 THEN zero_point
    ELSE LET const_3 == 3
             two_y == double_point_two_y(pt)
             x1_2_3 == mul_mod(mul_mod(pt.x, pt.x, p), const_3, p)
             lambda == div_mod(x1_2_3, two_y, p)
             x3 == sub_mod(sub_mod(mul_mod(lambda, lambda, p), pt.x, p), pt.x, p)
             y3 == sub_mod(mul_mod(sub_mod(pt.x, x3, p), lambda, p), pt.y, p)
         IN  MkPoint(x3, y3)

\* First statement of pr_to_pub's loop body: if on { base = double_point(base) }
pr_double(acc, started) == IF started THEN double_point(acc) ELSE acc

\* pr_add that adds the generator on every bit, set or not.
pr_add_always(acc, d) == add_points(acc, g)

\* Second statement of the loop body: if d > 0 { base = add_points(base, adder) }
pr_add(acc, d) == IF d > 0 THEN add_points(acc, g) ELSE acc

\* The loop of pr_to_pub (for d in binaries) from bit i on.
RECURSIVE pr_loop(_, _, _, _)
pr_loop(bits, i, acc, started) ==
    IF i > Len(bits) \/ acc = PanicPt THEN acc
    ELSE pr_loop(bits, i + 1, pr_add(pr_double(acc, started), bits[i]),
                 started \/ bits[i] > 0)

\* SECP256K1::pr_to_pub as a function of the scalar.
pr_to_pub(k) == pr_loop(bytes_to_binary(to_bytes(k)), 1, zero_point, FALSE)

(***************************************************************************)
(* State                                                                   *)
(***************************************************************************)

VARIABLES
    op,        \* the operation that was called ("none" while the call is pending)
    args,      \* the arguments of the call
    res,       \* what the call returned (Panic / PanicPt when it panicked)
    pc,        \* position inside pr_to_pub
    binaries,  \* pr_to_pub: the bits of the scalar, most significant first
    step,      \* pr_to_pub: number of bits processed
    base,      \* pr_to_pub: the accumulator
    on         \* pr_to_pub: a set bit has been seen

vars == <<op, args, res, pc, binaries, step, base, on>>

loopvars == <<pc, binaries, step, base, on>>

\* The loop variables of pr_to_pub outside a run of pr_to_pub.
LoopIdle ==
    /\ pc = "idle"
    /\ binaries = <<>>
    /\ step = 0
    /\ base = zero_point
    /\ on = FALSE

(***************************************************************************)
(* Calls of the U256 arithmetic: the arguments are drawn from the whole    *)
(* word, then one operation is applied to them.                            *)
(***************************************************************************)

InitArith ==
    /\ op = "none"
    /\ args \in Values \X Values \X Values
    /\ res = 0
    /\ LoopIdle

CallAddMod ==
    /\ op = "none"
    /\ op' = "add_mod"
    /\ res' = add_mod(args[1], args[2], args[3])
    /\ UNCHANGED <<args, loopvars>>

CallSubMod ==
    /\ op = "none"
    /\ op' = "sub_mod"
    /\ res' = sub_mod(args[1], args[2], args[3])
    /\ UNCHANGED <<args, loopvars>>

CallMulMod ==
    /\ op = "none"
    /\ op' = "mul_mod"
    /\ res' = mul_mod(args[1], args[2], args[3])
    /\ UNCHANGED <<args, loopvars>>

CallExpMod ==
    /\ op = "none"
    /\ op' = "exp_mod"
    /\ res' = exp_mod(args[1], args[2], args[3])
    /\ UNCHANGED <<args, loopvars>>

CallDivMod ==
    /\ op = "none"
    /\ op' = "div_mod"
    /\ res' = div_mod(args[1], args[2], args[3])
    /\ UNCHANGED <<args, loopvars>>

NextArith ==
    \/ CallAddMod
    \/ CallSubMod
    \/ CallMulMod
    \/ CallExpMod
    \/ CallDivMod

SpecArith == InitArith /\ [][NextArith]_vars

(***************************************************************************)
(* The group law of the curve, stated mathematically (unbounded integers,  *)
(* the inverse as the solution of l * v = 1), as the yardstick for the     *)
(* point operations.                                                       *)
(***************************************************************************)

FieldInv(v) == CHOOSE l \in 0 .. (p - 1) : (l * v) % p = 1

RefAdd(pt1, pt2) ==
    IF pt1 = zero_point THEN pt2
    ELSE IF pt2 = zero_point THEN pt1
    ELSE IF pt1.x = pt2.x /\ (pt1.y + pt2.y) % p = 0 THEN zero_point
    ELSE LET slope == IF pt1 = pt2
                      THEN (3 * pt1.x * pt1.x * FieldInv((2 * pt1.y) % p)) % p
                      ELSE ((pt1.y + p - pt2.y) * FieldInv((pt1.x + p - pt2.x) % p)) % p
             x3 == (slope * slope + 2 * p - pt1.x - pt2.x) % p
             y3 == ((pt1.x + p - x3) * slope + p - pt1.y) % p
         IN  [x |-> x3, y |-> y3]

\* i * g for i in 0 .. n, by repeated addition of the generator.
RefMultiple[i \in 0 .. n] ==
    IF i = 0 THEN zero_point ELSE RefAdd(RefMultiple[i - 1], g)

\* k * g in the group.
RefMul(k) == RefMultiple[k % n]

(***************************************************************************)
(* Calls of the point operations.  The first operand is any pair of words; *)
(* the second is a point of the group (the sentinel included) or one of    *)
(* its unreduced aliases.                                                  *)
(***************************************************************************)

AllPoints == [x : Values, y : Values]

\* The affine points of the curve, with reduced coordinates.
OnCurve(pt) ==
    /\ pt.x \in 0 .. (p - 1)
    /\ pt.y \in 0 .. (p - 1)
    /\ (pt.y * pt.y) % p = (pt.x * pt.x * pt.x + 7) % p

\* The group: the affine points and the identity sentinel.
GroupPoints == {pt \in AllPoints : OnCurve(pt)} \cup {zero_point}

Aliases(pt) == {q \in AllPoints : q.x % p = pt.x /\ q.y % p = pt.y}

SecondOperands == UNION {Aliases(pt) : pt \in GroupPoints}

InitPoint ==
    /\ op = "none"
    /\ args \in AllPoints \X SecondOperands
    /\ res = zero_point
    /\ LoopIdle

CallAddPoints ==
    /\ op = "none"
    /\ op' = "add_points"
    /\ res' = add_points(args[1], args[2])
    /\ UNCHANGED <<args, loopvars>>

CallDoublePoint ==
    /\ op = "none"
    /\ op' = "double_point"
    /\ res' = double_point(args[1])
    /\ UNCHANGED <<args, loopvars>>

NextPoint ==
    \/ CallAddPoints
    \/ CallDoublePoint

SpecPoint == InitPoint /\ [][NextPoint]_vars

(***************************************************************************)
(* pr_to_pub, statement by statement, for every scalar of the word         *)
(***************************************************************************)

Init ==
    /\ op = "pr_to_pub"
    /\ args \in {<<k>> : k \in Values}
    /\ res = zero_point
    /\ pc = "entry"
    /\ binaries = <<>>
    /\ step = 0
    /\ base = zero_point
    /\ on = FALSE

\* Lines 125-135: the bits of the scalar, the accumulator at the identity.
Enter ==
    /\ pc = "entry"
    /\ binaries' = bytes_to_binary(to_bytes(args[1]))
    /\ base' = zero_point
    /\ on' = FALSE
    /\ step' = 0
    /\ pc' = "double"
    /\ UNCHANGED <<op, args, res>>

\* Lines 138-140: double the accumulator once a set bit has been seen.
LoopDouble ==
    /\ pc = "double"
    /\ step < Len(binaries)
    /\ base' = pr_double(base, on)
    /\ pc' = IF base' = PanicPt THEN "panicked" ELSE "add"
    /\ UNCHANGED <<op, args, res, binaries, step, on>>

\* Lines 141-145: add the generator on a set bit, move to the next bit.
LoopAdd ==
    /\ pc = "add"
    /\ base' = pr_add(base, binaries[step + 1])
    /\ on' = (on \/ binaries[step + 1] > 0)
    /\ step' = step + 1
    /\ pc' = IF base' = PanicPt THEN "panicked" ELSE "double"
    /\ UNCHANGED <<op, args, res, binaries>>

\* Line 148: return base.
Return ==
    /\ pc = "double"
    /\ step = Len(binaries)
    /\ res' = base
    /\ pc' = "done"
    /\ UNCHANGED <<op, args, binaries, step, base, on>>

Next ==
    \/ Enter
    \/ LoopDouble
    \/ LoopAdd
    \/ Return

Spec == Init /\ [][Next]_vars

(***************************************************************************)
(* Properties of the U256 arithmetic                                       *)
(***************************************************************************)

IsPrime(m) == m >= 2 /\ \A d \in 2 .. (m - 1) : m % d # 0

\* C2: for every a, b and modulus >= 1, add_mod returns the mathematical
\* (a + b) mod p and does not panic, the overflow branch included.
C2_AddModExact ==
    (op = "add_mod" /\ args[3] >= 1) => res = (args[1] + args[2]) % args[3]

\* C2 witness: the sum of the two residues overflowed the word and the
\* corrected result is the true residue.
C2_Witness ==
    /\ op = "add_mod"
    /\ args[3] >= 1
    /\ (args[1] % args[3]) + (args[2] % args[3]) > MAX
    /\ res = (args[1] + args[2]) % args[3]

\* C3: for every a, b and modulus >= 1, mul_mod returns (a * b) mod p,
\* whichever operand drives the bit scan; a.mul_mod(1, p) = a mod p.
C3_MulModExact ==
    (op = "mul_mod" /\ args[3] >= 1) =>
        /\ res = (args[1] * args[2]) % args[3]
        /\ args[2] = 1 => res = args[1] % args[3]

\* C3 witness: the first operand is the smaller residue and drives a scan
\* of several bits; the product wrapped around the modulus.
C3_Witness ==
    /\ op = "mul_mod"
    /\ args[3] >= 1
    /\ (args[1] % args[3]) < (args[2] % args[3])
    /\ (args[1] % args[3]) >= 3
    /\ (args[1] % args[3]) * (args[2] % args[3]) > MAX
    /\ res = (args[1] * args[2]) % args[3]

\* C4: for a prime modulus and a divisor not divisible by it,
\* a.div_mod(b, p).mul_mod(b, p) = a mod p.
C4_DivModInverse ==
    (op = "div_mod" /\ IsPrime(args[3]) /\ args[2] % args[3] # 0) =>
        mul_mod(res, args[2], args[3]) = args[1] % args[3]

\* C4 witness: a division by a divisor other than 1 modulo an odd prime
\* whose quotient differs from the dividend.
C4_Witness ==
    /\ op = "div_mod"
    /\ IsPrime(args[3])
    /\ args[3] > 2
    /\ args[2] % args[3] > 1
    /\ args[1] % args[3] # 0
    /\ res # args[1] % args[3]
    /\ mul_mod(res, args[2], args[3]) = args[1] % args[3]

\* C5: for every a, b and modulus > 0, a.add_mod(b, p).sub_mod(b, p) = a mod p
\* and the subtraction does not panic.
C5_SubUndoesAdd ==
    (op = "add_mod" /\ args[3] >= 1) =>
        sub_mod(res, args[2], args[3]) = args[1] % args[3]

\* C5 witness: b exceeds the modulus and its residue exceeds the sum being
\* subtracted from, so a plain difference would underflow.
C5_Witness ==
    /\ op = "add_mod"
    /\ args[3] >= 1
    /\ args[2] > args[3]
    /\ args[2] % args[3] > res
    /\ res >= 0
    /\ sub_mod(res, args[2], args[3]) = args[1] % args[3]

\* C6: for every a, b and modulus >= 1, add_mod, sub_mod and mul_mod each
\* return a value r with 0 <= r < p.
C6_Closure ==
    (op \in {"add_mod", "sub_mod", "mul_mod"} /\ args[3] >= 1) =>
        (0 <= res /\ res < args[3])

\* C6 witness: an addition whose residues overflowed the word returned a
\* value below the modulus.
C6_Witness ==
    /\ op = "add_mod"
    /\ args[3] >= 1
    /\ (args[1] % args[3]) + (args[2] % args[3]) > MAX
    /\ 0 <= res
    /\ res < args[3]

\* C7: exp_mod returns a canonical residue r with 0 <= r < p for every
\* base, every exponent (0 included) and every modulus >= 1.
C7_ExpModCanonical ==
    (op = "exp_mod" /\ args[3] >= 1) => (0 <= res /\ res < args[3])

\* base^e mod m by e successive multiplications.
RECURSIVE RefPow(_, _, _)
RefPow(a, e, m) == IF e = 0 THEN 1 % m ELSE (RefPow(a, e - 1, m) * (a % m)) % m

\* C11: for every base, every exponent e and every modulus >= 2, exp_mod
\* returns base^e mod p (base^0 = 1), by the most-significant-first
\* square-and-multiply scan that skips the leading zero bits.
C11_ExpModExact ==
    (op = "exp_mod" /\ args[3] >= 2) => res = RefPow(args[1], args[2], args[3])

\* C11 witness: an exponent with leading zero bits, a clear bit between two
\* set bits, and a base other than 0 and 1, raised to the true power.
C11_Witness ==
    /\ op = "exp_mod"
    /\ args[3] >= 2
    /\ args[2] = 5
    /\ args[1] % args[3] >= 2
    /\ res = RefPow(args[1], 5, args[3])
    /\ res >= 2

(***************************************************************************)
(* Properties of the curve engine                                          *)
(***************************************************************************)

\* The scalar's bits read so far, as a number.
Prefix == args[1] \div (2 ^ (NumBytes * ByteBits - step))

\* C1: for every scalar k with 1 <= k <= n-1, pr_to_pub never trips
\* add_points' assertion, after each processed bit the accumulator is
\* (prefix read so far) * G, and the point returned is k * G.
C1_PrToPubCorrect ==
    (op = "pr_to_pub" /\ args[1] \in 1 .. (n - 1)) =>
        /\ pc # "panicked"
        /\ pc = "double" => base = RefMul(Prefix)
        /\ pc = "add" => base = RefMul(2 * Prefix)
        /\ pc = "done" => res = RefMul(args[1])

\* C1 witness: the largest scalar of the range ran to completion and
\* returned (n-1) * G, an affine point.
C1_Witness ==
    /\ op = "pr_to_pub"
    /\ args[1] = n - 1
    /\ pc = "done"
    /\ res = RefMul(n - 1)
    /\ res # zero_point

\* C8: pr_to_pub accepts every scalar of the word, k = 0 and k >= n
\* included, without panicking, and returns (k mod n) * G.
C8_AnyScalar ==
    op = "pr_to_pub" =>
        /\ pc # "panicked"
        /\ pc = "done" => res = RefMul(args[1])

\* C9: add_points panics for every pair with equal x-coordinates (doubling,
\* negation, both operands the sentinel: the assertion precedes the
\* identity shortcut) and returns a point for every pair with different
\* x-coordinates.
C9_AddPointsAbort ==
    op = "add_points" =>
        /\ args[1].x = args[2].x => res = PanicPt
        /\ args[1].x # args[2].x => res \in AllPoints

\* C9 witness: both operands are the identity sentinel and the call panicked.
C9_Witness ==
    /\ op = "add_points"
    /\ args[1] = zero_point
    /\ args[2] = zero_point
    /\ res = PanicPt

\* C10: double_point returns the sentinel for the sentinel and for y = 0,
\* the group double 2P for every other point of the curve, and
\* double_point(G) is pr_to_pub(2).
C10_DoublePoint ==
    op = "double_point" =>
        /\ (is_zero_point(args[1]) \/ args[1].y = 0) => res = zero_point
        /\ (OnCurve(args[1]) /\ args[1].y # 0) => res = RefAdd(args[1], args[1])
        /\ args[1] = g => res = pr_to_pub(2)

\* C10 witness: the generator was doubled to 2G, the point pr_to_pub(2)
\* returns.
C10_Witness ==
    /\ op = "double_point"
    /\ args[1] = g
    /\ res = RefMul(2)
    /\ res = pr_to_pub(2)
    /\ res # zero_point

\* C12: whenever add_points or double_point gets past its guards, which
\* compare raw magnitudes, the divisor handed to div_mod (x1 - x2 mod p,
\* respectively 2y mod p) is not congruent to 0 modulo p, for every pair
\* of coordinate words, unreduced ones included.
C12_DivisorNonZero ==
    /\ (op = "add_points" /\ add_points_slope_reached(args[1], args[2])) =>
           add_points_x_diff(args[1], args[2]) % p # 0
    /\ (op = "double_point" /\ double_point_slope_reached(args[1])) =>
           double_point_two_y(args[1]) % p # 0

====
